---- MODULE Spec2Model ----
(***************************************************************************)
(* Model of src/domain/thirdpartyRequests/authorizations.ts:               *)
(*   forwardPostAuthorization       (the Forwarder)                        *)
(*   forwardPostAuthorizationError  (the Error Escalator)                  *)
(* Each invocation is a small sequential process whose steps are the       *)
(* statements between two awaits.  The endpoint directory, the outbound    *)
(* sender and the tracing spans are the environment: their answers are     *)
(* chosen nondeterministically, and every call made to them is appended to *)
(* the invocation's log.                                                   *)
(***************************************************************************)
EXTENDS Integers, Sequences, FiniteSets, TLC

VARIABLES pc, input, headers, payload, fw, er, spans, log

vars == <<pc, input, headers, payload, fw, er, spans, log>>

(* ------------------------------ values --------------------------------- *)

\* Invocation slots: "a" is the invocation under study, "b" a second,
\* concurrent one (idle in Spec).
Invs == {"a", "b"}

Undefined == "undefined"

\* Enum.Http.Headers.FSPIOP.SOURCE / DESTINATION / SWITCH.value
SOURCE == "fspiop-source"
DESTINATION == "fspiop-destination"
SWITCH == "switch"

\* Enum.Http.RestMethods
POST == "POST"
PUT == "PUT"

\* Enum.EndPoints.FspEndpointTypes
THIRDPARTY_TRANSACTIONS_AUTHORIZATIONS_POST == "THIRDPARTY_TRANSACTIONS_AUTHORIZATIONS_POST"
THIRDPARTY_CALLBACK_URL_TRANSACTION_REQUEST_AUTHORIZATIONS_PUT_ERROR == "THIRDPARTY_CALLBACK_URL_TRANSACTION_REQUEST_AUTHORIZATIONS_PUT_ERROR"

\* A template is a sequence of tokens; "{{ID}}" is the placeholder tag and
\* "{{" an unclosed tag.
PostTemplate == <<"/thirdpartyRequests/transactions/", "{{ID}}", "/authorizations">>
BadTemplate == <<"/thirdpartyRequests/transactions/", "{{", "/authorizations">>
\* Enum.EndPoints.FspEndpointTemplates.THIRDPARTY_TRANSACTION_REQUEST_AUTHORIZATIONS_PUT_ERROR
THIRDPARTY_TRANSACTION_REQUEST_AUTHORIZATIONS_PUT_ERROR == <<"/thirdpartyRequests/transactions/", "{{ID}}", "/authorizations/error">>

HeaderNames == {SOURCE, DESTINATION, "content-type"}
SourceIds == {"pispA", "dfspB"}
DestinationIds == {"dfspA", "dfspB", Undefined}
Paths == {PostTemplate, BadTemplate}
\* a resource id is a non-empty sequence of at most MaxIdLen characters
MaxIdLen == 2
IdChars == {"a", "/"}
TransactionRequestIds == UNION {[1..n -> IdChars] : n \in 1..MaxIdLen}
SpanKinds == {"none", "ok", "malformed"}
SpanIds == {"parent", "fwd", "esc"}

\* PostAuthorizationPayload
Payloads == {[challenge |-> "c1", value |-> "v1", consentId |-> "cs1",
              sourceAccountId |-> "acc1", status |-> "PENDING"]}

HeaderSets ==
    {[h \in HeaderNames |->
        IF h = SOURCE THEN s ELSE IF h = DESTINATION THEN d ELSE "application/json"]
     : s \in SourceIds, d \in DestinationIds}

Inputs ==
    [path : Paths, headers : HeaderSets, transactionRequestId : TransactionRequestIds,
     payload : Payloads, span : SpanKinds]

\* the locals of an operation that has not been entered
NoFrame ==
    [active |-> FALSE, path |-> Undefined, headers |-> Undefined,
     transactionRequestId |-> Undefined, payload |-> Undefined, span |-> Undefined,
     childSpan |-> Undefined, sourceDfspId |-> Undefined, destinationDfspId |-> Undefined,
     endpoint |-> Undefined, url |-> Undefined, err |-> Undefined,
     errorHeaders |-> Undefined, fspiopError |-> Undefined]

(* --------------------------- pure helpers ------------------------------ *)

\* Mustache escapes the HTML-sensitive characters of a {{ID}} value.
EscapeChar(c) == IF c = "/" THEN "&#x2F;" ELSE c

EscapeHtml(s) == [k \in 1..Len(s) |-> EscapeChar(s[k])]

\* Mustache.render(template, { ID: id }): an unclosed tag is a parse error,
\* the {{ID}} tag is replaced by the escaped id, other text is literal.
RECURSIVE RenderTokens(_, _)
RenderTokens(template, id) ==
    IF template = <<>> THEN <<>>
    ELSE (IF Head(template) = "{{ID}}" THEN EscapeHtml(id) ELSE <<Head(template)>>)
         \o RenderTokens(Tail(template), id)

Render(template, id) ==
    IF \E k \in 1..Len(template) : template[k] = "{{"
    THEN [ok |-> FALSE, value |-> <<>>]
    ELSE [ok |-> TRUE, value |-> RenderTokens(template, id)]

\* base URL the directory holds for a participant and endpoint type
BaseUrl(fsp, type) == <<"http://", fsp, type>>

\* a normaliser that wraps whatever it is given, FSPIOPError or not
ReformatFSPIOPError_AlwaysWraps(err) ==
    [isFSPIOP |-> TRUE, code |-> "2001", kind |-> err.kind, origin |-> err.origin,
     wrapped |-> err.wrapped + 1]

\* ReformatFSPIOPError: an FSPIOPError is returned as it is, anything else
\* is wrapped (it becomes the cause) as an internal server error keeping its
\* message.  wrapped is the length of the cause chain.
ReformatFSPIOPError(err) ==
    IF err.isFSPIOP THEN err
    ELSE [isFSPIOP |-> TRUE, code |-> "2001", kind |-> err.kind, origin |-> err.origin,
          wrapped |-> err.wrapped + 1]

\* fspiopError.toApiErrorObject(...)
ToApiErrorObject(e) ==
    [errorInformation |-> [errorCode |-> e.code, errorDescription |-> e.kind]]

\* the failures the collaborators produce; origin is the operation in
\* which the failure arose
ResolutionError(hop) == [isFSPIOP |-> TRUE, code |-> "3201", kind |-> "ResolutionError", origin |-> hop, wrapped |-> 0]
RenderError(hop) == [isFSPIOP |-> FALSE, code |-> "Error", kind |-> "RenderError", origin |-> hop, wrapped |-> 0]
TransportError(hop) == [isFSPIOP |-> FALSE, code |-> "Error", kind |-> "TransportError", origin |-> hop, wrapped |-> 0]
ResponseError(hop) == [isFSPIOP |-> TRUE, code |-> "1001", kind |-> "ResponseError", origin |-> hop, wrapped |-> 0]
ValidationError(hop) == [isFSPIOP |-> FALSE, code |-> "TypeError", kind |-> "ValidationError", origin |-> hop, wrapped |-> 0]

SendErrors(hop) == {TransportError(hop), ResponseError(hop)}

\* the reversed headers without the override of fspiop-source
ErrorHeaders_KeepSource(hdrs, sourceDfspId) ==
    [h \in (DOMAIN hdrs) \cup {SOURCE, DESTINATION} |->
        IF h = DESTINATION THEN sourceDfspId ELSE hdrs[h]]

\* the reversed headers without the override of fspiop-destination
ErrorHeaders_KeepDestination(hdrs, sourceDfspId) ==
    [h \in (DOMAIN hdrs) \cup {SOURCE, DESTINATION} |->
        IF h = SOURCE THEN SWITCH ELSE hdrs[h]]

\* { ...headers, 'fspiop-source': SWITCH.value, 'fspiop-destination': sourceDfspId }
ErrorHeaders(hdrs, sourceDfspId) ==
    [h \in (DOMAIN hdrs) \cup {SOURCE, DESTINATION} |->
        IF h = SOURCE THEN SWITCH
        ELSE IF h = DESTINATION THEN sourceDfspId
        ELSE hdrs[h]]

(* ------------------------------ spans ---------------------------------- *)

NewSpan == [created |-> 0, finishes |-> 0, isFinished |-> FALSE, status |-> "none"]

\* span.getChild(name)
GetChild(sp, child) == [sp EXCEPT ![child].created = @ + 1]

\* span.finish(): the span is closed, with the given status
Finish(sp, s, status) ==
    [sp EXCEPT ![s] = [@ EXCEPT !.finishes = @ + 1, !.isFinished = TRUE, !.status = status]]

\* finishChildSpan(fspiopError, childSpan) of ~/shared/util: the span is
\* finished once, with error status
FinishChildSpan(sp, s) == Finish(sp, s, "error")

\* the guard without its isFinished test
MustFinish_Unguarded(sp, childSpan) == childSpan # Undefined

\* if (childSpan && !childSpan.isFinished) { finish }
MustFinish(sp, childSpan) == childSpan # Undefined /\ ~sp[childSpan].isFinished

FinishEvent(hop, s, status) == [ev |-> "finish", hop |-> hop, by |-> hop, span |-> s, status |-> status]

\* the log after the guarded finish of lines 92-94, 111-113, 163-165, 170-172
LogFinish(lg, sp, childSpan, hop, status) ==
    IF MustFinish(sp, childSpan) THEN Append(lg, FinishEvent(hop, childSpan, status)) ELSE lg

\* the spans after that guarded finish: childSpan.finish() on the success
\* path, finishChildSpan(fspiopError, childSpan) on the error path
SpansFinish(sp, childSpan, status) ==
    IF ~MustFinish(sp, childSpan) THEN sp
    ELSE IF status = "error" THEN FinishChildSpan(sp, childSpan)
    ELSE Finish(sp, childSpan, status)

\* the outbound sender may close the span it was handed
SenderFinishes(sp, childSpan) ==
    IF childSpan # Undefined /\ ~sp[childSpan].isFinished THEN BOOLEAN ELSE {FALSE}

(* ------------------------------- Init ---------------------------------- *)

Init ==
    /\ pc = [i \in Invs |-> IF i = "a" THEN "f_getChild" ELSE "off"]
    /\ input \in [Invs -> Inputs]
    /\ input["b"] = CHOOSE in \in Inputs : TRUE
    /\ headers = [i \in Invs |-> input[i].headers]
    /\ payload = [i \in Invs |-> input[i].payload]
    /\ fw = [i \in Invs |-> NoFrame]
    /\ er = [i \in Invs |-> NoFrame]
    /\ spans = [i \in Invs |-> [s \in SpanIds |-> NewSpan]]
    /\ log = [i \in Invs |-> <<>>]

(* --------------------- environment (collaborators) --------------------- *)

\* Util.Endpoints.getEndpoint: no endpoint is registered for a missing
\* participant; otherwise the directory answers or fails.
EndpointAnswers(fsp, type) ==
    IF fsp = Undefined THEN {[ok |-> FALSE, value |-> <<>>]}
    ELSE {[ok |-> TRUE, value |-> BaseUrl(fsp, type)], [ok |-> FALSE, value |-> <<>>]}

GetEndpointEvent(hop, fsp, type, ok) ==
    [ev |-> "getEndpoint", hop |-> hop, fsp |-> fsp, type |-> type, ok |-> ok]

SendRequestEvent(hop, f, hdrs, method, body, ok) ==
    [ev |-> "sendRequest", hop |-> hop, url |-> f.url, headers |-> hdrs,
     source |-> f.sourceDfspId, destination |-> f.destinationDfspId,
     method |-> method, payload |-> body, span |-> f.childSpan, ok |-> ok]

\* the log and the spans after a send during which the sender did (fin) or
\* did not close the span it was handed
LogSend(lg, event, childSpan, fin) ==
    IF fin THEN Append(Append(lg, event),
                       [ev |-> "finish", hop |-> event.hop, by |-> "sender",
                        span |-> childSpan, status |-> "sender"])
    ELSE Append(lg, event)

SpansSend(sp, childSpan, fin) == IF fin THEN Finish(sp, childSpan, "sender") ELSE sp

(* ---------------------------- the Forwarder ---------------------------- *)

\* FwdEnter with the getChild of line 65 moved inside the try
FwdEnter_InsideTry(i) ==
    /\ pc[i] = "f_getChild"
    /\ LET in == input[i]
           frame == [NoFrame EXCEPT !.active = TRUE, !.path = in.path,
                        !.transactionRequestId = in.transactionRequestId,
                        !.span = in.span,
                        !.sourceDfspId = headers[i][SOURCE],
                        !.destinationDfspId = headers[i][DESTINATION]]
       IN  CASE in.span = "malformed" ->
                  /\ pc' = [pc EXCEPT ![i] = "f_catch"]
                  /\ fw' = [fw EXCEPT ![i] = [frame EXCEPT !.err = ValidationError("fwd")]]
                  /\ UNCHANGED <<spans, log>>
             [] in.span = "ok" ->
                  /\ pc' = [pc EXCEPT ![i] = "f_getEndpoint"]
                  /\ fw' = [fw EXCEPT ![i] = [frame EXCEPT !.childSpan = "fwd"]]
                  /\ spans' = [spans EXCEPT ![i] = GetChild(@, "fwd")]
                  /\ log' = [log EXCEPT ![i] = Append(@, [ev |-> "getChild", hop |-> "fwd",
                                                         parent |-> "parent", child |-> "fwd"])]
             [] OTHER ->
                  /\ pc' = [pc EXCEPT ![i] = "f_getEndpoint"]
                  /\ fw' = [fw EXCEPT ![i] = frame]
                  /\ UNCHANGED <<spans, log>>
    /\ UNCHANGED <<input, headers, payload, er>>

\* lines 65-68: derive the child span, read the routing headers
FwdEnter(i) ==
    /\ pc[i] = "f_getChild"
    /\ LET in == input[i]
           frame == [NoFrame EXCEPT !.active = TRUE, !.path = in.path,
                        !.transactionRequestId = in.transactionRequestId,
                        !.span = in.span,
                        !.sourceDfspId = headers[i][SOURCE],
                        !.destinationDfspId = headers[i][DESTINATION]]
       IN  CASE in.span = "malformed" ->
                  \* span.getChild is not a function: thrown outside the try
                  /\ pc' = [pc EXCEPT ![i] = "done"]
                  /\ fw' = [fw EXCEPT ![i] = [NoFrame EXCEPT !.active = TRUE]]
                  /\ log' = [log EXCEPT ![i] = Append(@, [ev |-> "throw", hop |-> "fwd",
                                                         err |-> ValidationError("fwd")])]
                  /\ UNCHANGED spans
             [] in.span = "ok" ->
                  /\ pc' = [pc EXCEPT ![i] = "f_getEndpoint"]
                  /\ fw' = [fw EXCEPT ![i] = [frame EXCEPT !.childSpan = "fwd"]]
                  /\ spans' = [spans EXCEPT ![i] = GetChild(@, "fwd")]
                  /\ log' = [log EXCEPT ![i] = Append(@, [ev |-> "getChild", hop |-> "fwd",
                                                         parent |-> "parent", child |-> "fwd"])]
             [] OTHER ->
                  /\ pc' = [pc EXCEPT ![i] = "f_getEndpoint"]
                  /\ fw' = [fw EXCEPT ![i] = frame]
                  /\ UNCHANGED <<spans, log>>
    /\ UNCHANGED <<input, headers, payload, er>>

\* FwdGetEndpoint going on to render although the resolution failed
FwdGetEndpoint_IgnoresFailure(i) ==
    /\ pc[i] = "f_getEndpoint"
    /\ LET f == fw[i]
           type == THIRDPARTY_TRANSACTIONS_AUTHORIZATIONS_POST
       IN  \E ans \in EndpointAnswers(f.destinationDfspId, type) :
              /\ log' = [log EXCEPT ![i] =
                            Append(@, GetEndpointEvent("fwd", f.destinationDfspId, type, ans.ok))]
              /\ fw' = [fw EXCEPT ![i].endpoint = ans.value]
              /\ pc' = [pc EXCEPT ![i] = "f_render"]
    /\ UNCHANGED <<input, headers, payload, er, spans>>

\* lines 71-76: await getEndpoint(ENDPOINT_SERVICE_URL, destinationDfspId, endpointType)
FwdGetEndpoint(i) ==
    /\ pc[i] = "f_getEndpoint"
    /\ LET f == fw[i]
           type == THIRDPARTY_TRANSACTIONS_AUTHORIZATIONS_POST
       IN  \E ans \in EndpointAnswers(f.destinationDfspId, type) :
              /\ log' = [log EXCEPT ![i] =
                            Append(@, GetEndpointEvent("fwd", f.destinationDfspId, type, ans.ok))]
              /\ IF ans.ok
                 THEN /\ fw' = [fw EXCEPT ![i].endpoint = ans.value]
                      /\ pc' = [pc EXCEPT ![i] = "f_render"]
                 ELSE /\ fw' = [fw EXCEPT ![i].err = ResolutionError("fwd")]
                      /\ pc' = [pc EXCEPT ![i] = "f_catch"]
    /\ UNCHANGED <<input, headers, payload, er, spans>>

\* lines 77-78: Mustache.render(endpoint + path, { ID: transactionRequestId })
FwdRender(i) ==
    /\ pc[i] = "f_render"
    /\ LET f == fw[i]
           url == Render(f.endpoint \o f.path, f.transactionRequestId)
       IN  /\ log' = [log EXCEPT ![i] = Append(@, [ev |-> "render", hop |-> "fwd", ok |-> url.ok])]
           /\ IF url.ok
              THEN /\ fw' = [fw EXCEPT ![i].url = url.value]
                   /\ pc' = [pc EXCEPT ![i] = "f_send"]
              ELSE /\ fw' = [fw EXCEPT ![i].err = RenderError("fwd")]
                   /\ pc' = [pc EXCEPT ![i] = "f_catch"]
    /\ UNCHANGED <<input, headers, payload, er, spans>>

\* lines 80-91: await sendRequest(url, headers, source, destination, POST, payload, JSON, childSpan)
FwdSendRequest(i) ==
    /\ pc[i] = "f_send"
    /\ LET f == fw[i] IN
       \E fin \in SenderFinishes(spans[i], f.childSpan) :
          /\ spans' = [spans EXCEPT ![i] = SpansSend(@, f.childSpan, fin)]
          /\ \/ /\ log' = [log EXCEPT ![i] =
                             LogSend(@, SendRequestEvent("fwd", f, headers[i], POST, payload[i], TRUE),
                                     f.childSpan, fin)]
                /\ pc' = [pc EXCEPT ![i] = "f_finish"]
                /\ UNCHANGED fw
             \/ \E e \in SendErrors("fwd") :
                   /\ log' = [log EXCEPT ![i] =
                                LogSend(@, SendRequestEvent("fwd", f, headers[i], POST, payload[i], FALSE),
                                        f.childSpan, fin)]
                   /\ fw' = [fw EXCEPT ![i].err = e]
                   /\ pc' = [pc EXCEPT ![i] = "f_catch"]
    /\ UNCHANGED <<input, headers, payload, er>>

\* FwdFinish with childSpan kept in a variable shared by all invocations:
\* the finish reaches the spans of the other invocation in flight
FwdFinish_SharedChildSpan(i) ==
    /\ pc[i] = "f_finish"
    /\ spans' = [j \in Invs |-> SpansFinish(spans[j], fw[j].childSpan, "ok")]
    /\ log' = [log EXCEPT ![i] =
                 Append(LogFinish(@, spans[i], fw[i].childSpan, "fwd", "ok"),
                        [ev |-> "return", hop |-> "fwd"])]
    /\ pc' = [pc EXCEPT ![i] = "done"]
    /\ UNCHANGED <<input, headers, payload, fw, er>>

\* FwdFinish returning without closing the span
FwdFinish_NoFinish(i) ==
    /\ pc[i] = "f_finish"
    /\ log' = [log EXCEPT ![i] = Append(@, [ev |-> "return", hop |-> "fwd"])]
    /\ pc' = [pc EXCEPT ![i] = "done"]
    /\ UNCHANGED <<input, headers, payload, fw, er, spans>>

\* lines 92-94 and the return of line 117
FwdFinish(i) ==
    /\ pc[i] = "f_finish"
    /\ spans' = [spans EXCEPT ![i] = SpansFinish(@, fw[i].childSpan, "ok")]
    /\ log' = [log EXCEPT ![i] =
                 Append(LogFinish(@, spans[i], fw[i].childSpan, "fwd", "ok"),
                        [ev |-> "return", hop |-> "fwd"])]
    /\ pc' = [pc EXCEPT ![i] = "done"]
    /\ UNCHANGED <<input, headers, payload, fw, er>>

\* FwdCatch without the call of lines 103-109
FwdCatch_NoEscalation(i) ==
    /\ pc[i] = "f_catch"
    /\ fw' = [fw EXCEPT ![i].errorHeaders = ErrorHeaders(headers[i], fw[i].sourceDfspId),
                         ![i].fspiopError = ReformatFSPIOPError(fw[i].err)]
    /\ pc' = [pc EXCEPT ![i] = "f_finishError"]
    /\ UNCHANGED <<input, headers, payload, er, spans, log>>

\* FwdCatch writing the reversed fields into the caller's headers object
\* instead of a copy
FwdCatch_MutatesHeaders(i) ==
    /\ pc[i] = "f_catch"
    /\ LET f == fw[i]
           errorHeaders == ErrorHeaders(headers[i], f.sourceDfspId)
           fspiopError == ReformatFSPIOPError(f.err)
           body == ToApiErrorObject(fspiopError)
       IN  /\ headers' = [headers EXCEPT ![i] = errorHeaders]
           /\ fw' = [fw EXCEPT ![i].errorHeaders = errorHeaders, ![i].fspiopError = fspiopError]
           /\ er' = [er EXCEPT ![i] =
                       [NoFrame EXCEPT !.active = TRUE,
                           !.path = THIRDPARTY_TRANSACTION_REQUEST_AUTHORIZATIONS_PUT_ERROR,
                           !.headers = errorHeaders,
                           !.transactionRequestId = f.transactionRequestId,
                           !.payload = body,
                           !.span = f.childSpan]]
           /\ log' = [log EXCEPT ![i] =
                        Append(@, [ev |-> "escalate", hop |-> "fwd",
                                   path |-> THIRDPARTY_TRANSACTION_REQUEST_AUTHORIZATIONS_PUT_ERROR,
                                   headers |-> errorHeaders,
                                   transactionRequestId |-> f.transactionRequestId,
                                   payload |-> body, span |-> f.childSpan])]
           /\ pc' = [pc EXCEPT ![i] = "e_getChild"]
    /\ UNCHANGED <<input, payload, spans>>

\* FwdCatch closing the span before it calls the Error Escalator
FwdCatch_FinishesFirst(i) ==
    /\ pc[i] = "f_catch"
    /\ LET f == fw[i]
           errorHeaders == ErrorHeaders(headers[i], f.sourceDfspId)
           fspiopError == ReformatFSPIOPError(f.err)
           body == ToApiErrorObject(fspiopError)
       IN  /\ fw' = [fw EXCEPT ![i].errorHeaders = errorHeaders, ![i].fspiopError = fspiopError]
           /\ er' = [er EXCEPT ![i] =
                       [NoFrame EXCEPT !.active = TRUE,
                           !.path = THIRDPARTY_TRANSACTION_REQUEST_AUTHORIZATIONS_PUT_ERROR,
                           !.headers = errorHeaders,
                           !.transactionRequestId = f.transactionRequestId,
                           !.payload = body,
                           !.span = f.childSpan]]
           /\ spans' = [spans EXCEPT ![i] = SpansFinish(@, f.childSpan, "error")]
           /\ log' = [log EXCEPT ![i] =
                        Append(LogFinish(@, spans[i], f.childSpan, "fwd", "error"),
                               [ev |-> "escalate", hop |-> "fwd",
                                path |-> THIRDPARTY_TRANSACTION_REQUEST_AUTHORIZATIONS_PUT_ERROR,
                                headers |-> errorHeaders,
                                transactionRequestId |-> f.transactionRequestId,
                                payload |-> body, span |-> f.childSpan])]
           /\ pc' = [pc EXCEPT ![i] = "e_getChild"]
    /\ UNCHANGED <<input, headers, payload>>

\* lines 96-109: build the reversed headers, normalise the failure and call
\* forwardPostAuthorizationError
FwdCatch(i) ==
    /\ pc[i] = "f_catch"
    /\ LET f == fw[i]
           errorHeaders == ErrorHeaders(headers[i], f.sourceDfspId)
           fspiopError == ReformatFSPIOPError(f.err)
           body == ToApiErrorObject(fspiopError)
       IN  /\ fw' = [fw EXCEPT ![i].errorHeaders = errorHeaders, ![i].fspiopError = fspiopError]
           /\ er' = [er EXCEPT ![i] =
                       [NoFrame EXCEPT !.active = TRUE,
                           !.path = THIRDPARTY_TRANSACTION_REQUEST_AUTHORIZATIONS_PUT_ERROR,
                           !.headers = errorHeaders,
                           !.transactionRequestId = f.transactionRequestId,
                           !.payload = body,
                           !.span = f.childSpan]]
           /\ log' = [log EXCEPT ![i] =
                        Append(@, [ev |-> "escalate", hop |-> "fwd",
                                   path |-> THIRDPARTY_TRANSACTION_REQUEST_AUTHORIZATIONS_PUT_ERROR,
                                   headers |-> errorHeaders,
                                   transactionRequestId |-> f.transactionRequestId,
                                   payload |-> body, span |-> f.childSpan])]
           /\ pc' = [pc EXCEPT ![i] = "e_getChild"]
    /\ UNCHANGED <<input, headers, payload, spans>>

\* line 103, the awaited escalation rejects: the rejection leaves the catch
\* block and is what forwardPostAuthorization raises
FwdEscalationRejected(i) ==
    /\ pc[i] = "f_rejected"
    /\ log' = [log EXCEPT ![i] = Append(@, [ev |-> "throw", hop |-> "fwd",
                                           err |-> er[i].fspiopError])]
    /\ pc' = [pc EXCEPT ![i] = "done"]
    /\ UNCHANGED <<input, headers, payload, fw, er, spans>>

\* FwdFinishError with the throw inside the if block of lines 111-113
FwdFinishError_ThrowsInsideIf(i) ==
    /\ pc[i] = "f_finishError"
    /\ spans' = [spans EXCEPT ![i] = SpansFinish(@, fw[i].childSpan, "error")]
    /\ log' = [log EXCEPT ![i] =
                 IF MustFinish(spans[i], fw[i].childSpan)
                 THEN Append(LogFinish(@, spans[i], fw[i].childSpan, "fwd", "error"),
                             [ev |-> "throw", hop |-> "fwd", err |-> fw[i].fspiopError])
                 ELSE Append(@, [ev |-> "return", hop |-> "fwd"])]
    /\ pc' = [pc EXCEPT ![i] = "done"]
    /\ UNCHANGED <<input, headers, payload, fw, er>>

\* FwdFinishError swallowing the failure instead of raising it
FwdFinishError_Swallows(i) ==
    /\ pc[i] = "f_finishError"
    /\ spans' = [spans EXCEPT ![i] = SpansFinish(@, fw[i].childSpan, "error")]
    /\ log' = [log EXCEPT ![i] =
                 Append(LogFinish(@, spans[i], fw[i].childSpan, "fwd", "error"),
                        [ev |-> "return", hop |-> "fwd"])]
    /\ pc' = [pc EXCEPT ![i] = "done"]
    /\ UNCHANGED <<input, headers, payload, fw, er>>

\* lines 111-114, the awaited escalation resolved: close the span with the
\* error and raise the normalised failure
FwdFinishError(i) ==
    /\ pc[i] = "f_finishError"
    /\ spans' = [spans EXCEPT ![i] = SpansFinish(@, fw[i].childSpan, "error")]
    /\ log' = [log EXCEPT ![i] =
                 Append(LogFinish(@, spans[i], fw[i].childSpan, "fwd", "error"),
                        [ev |-> "throw", hop |-> "fwd", err |-> fw[i].fspiopError])]
    /\ pc' = [pc EXCEPT ![i] = "done"]
    /\ UNCHANGED <<input, headers, payload, fw, er>>

(* -------------------------- the Error Escalator ------------------------ *)

\* ErrEnter using the span handed over as its own instead of deriving a child
ErrEnter_ReusesSpan(i) ==
    /\ pc[i] = "e_getChild"
    /\ LET e == er[i]
       IN  er' = [er EXCEPT ![i] = [e EXCEPT !.sourceDfspId = e.headers[SOURCE],
                                            !.destinationDfspId = e.headers[DESTINATION],
                                            !.childSpan = e.span]]
    /\ pc' = [pc EXCEPT ![i] = "e_getEndpoint"]
    /\ UNCHANGED <<input, headers, payload, fw, spans, log>>

\* lines 137-140: derive the child span of the span handed over, read the
\* routing headers
ErrEnter(i) ==
    /\ pc[i] = "e_getChild"
    /\ LET e == er[i]
           frame == [e EXCEPT !.sourceDfspId = e.headers[SOURCE],
                              !.destinationDfspId = e.headers[DESTINATION]]
       IN  IF e.span # Undefined
           THEN /\ er' = [er EXCEPT ![i] = [frame EXCEPT !.childSpan = "esc"]]
                /\ spans' = [spans EXCEPT ![i] = GetChild(@, "esc")]
                /\ log' = [log EXCEPT ![i] = Append(@, [ev |-> "getChild", hop |-> "esc",
                                                       parent |-> e.span, child |-> "esc"])]
           ELSE /\ er' = [er EXCEPT ![i] = frame]
                /\ UNCHANGED <<spans, log>>
    /\ pc' = [pc EXCEPT ![i] = "e_getEndpoint"]
    /\ UNCHANGED <<input, headers, payload, fw>>

\* ErrGetEndpoint resolving the sender of the error instead of its receiver
ErrGetEndpoint_Source(i) ==
    /\ pc[i] = "e_getEndpoint"
    /\ LET e == er[i]
           type == THIRDPARTY_CALLBACK_URL_TRANSACTION_REQUEST_AUTHORIZATIONS_PUT_ERROR
       IN  \E ans \in EndpointAnswers(e.sourceDfspId, type) :
              /\ log' = [log EXCEPT ![i] =
                            Append(@, GetEndpointEvent("esc", e.sourceDfspId, type, ans.ok))]
              /\ IF ans.ok
                 THEN /\ er' = [er EXCEPT ![i].endpoint = ans.value]
                      /\ pc' = [pc EXCEPT ![i] = "e_render"]
                 ELSE /\ er' = [er EXCEPT ![i].err = ResolutionError("esc")]
                      /\ pc' = [pc EXCEPT ![i] = "e_catch"]
    /\ UNCHANGED <<input, headers, payload, fw, spans>>

\* lines 143-147
ErrGetEndpoint(i) ==
    /\ pc[i] = "e_getEndpoint"
    /\ LET e == er[i]
           type == THIRDPARTY_CALLBACK_URL_TRANSACTION_REQUEST_AUTHORIZATIONS_PUT_ERROR
       IN  \E ans \in EndpointAnswers(e.destinationDfspId, type) :
              /\ log' = [log EXCEPT ![i] =
                            Append(@, GetEndpointEvent("esc", e.destinationDfspId, type, ans.ok))]
              /\ IF ans.ok
                 THEN /\ er' = [er EXCEPT ![i].endpoint = ans.value]
                      /\ pc' = [pc EXCEPT ![i] = "e_render"]
                 ELSE /\ er' = [er EXCEPT ![i].err = ResolutionError("esc")]
                      /\ pc' = [pc EXCEPT ![i] = "e_catch"]
    /\ UNCHANGED <<input, headers, payload, fw, spans>>

\* lines 148-149
ErrRender(i) ==
    /\ pc[i] = "e_render"
    /\ LET e == er[i]
           url == Render(e.endpoint \o e.path, e.transactionRequestId)
       IN  /\ log' = [log EXCEPT ![i] = Append(@, [ev |-> "render", hop |-> "esc", ok |-> url.ok])]
           /\ IF url.ok
              THEN /\ er' = [er EXCEPT ![i].url = url.value]
                   /\ pc' = [pc EXCEPT ![i] = "e_send"]
              ELSE /\ er' = [er EXCEPT ![i].err = RenderError("esc")]
                   /\ pc' = [pc EXCEPT ![i] = "e_catch"]
    /\ UNCHANGED <<input, headers, payload, fw, spans>>

\* lines 151-162: await sendRequest(url, headers, source, destination, PUT, payload, JSON, childSpan)
ErrSendRequest(i) ==
    /\ pc[i] = "e_send"
    /\ LET e == er[i] IN
       \E fin \in SenderFinishes(spans[i], e.childSpan) :
          /\ spans' = [spans EXCEPT ![i] = SpansSend(@, e.childSpan, fin)]
          /\ \/ /\ log' = [log EXCEPT ![i] =
                             LogSend(@, SendRequestEvent("esc", e, e.headers, PUT, e.payload, TRUE),
                                     e.childSpan, fin)]
                /\ pc' = [pc EXCEPT ![i] = "e_finish"]
                /\ UNCHANGED er
             \/ \E x \in SendErrors("esc") :
                   /\ log' = [log EXCEPT ![i] =
                                LogSend(@, SendRequestEvent("esc", e, e.headers, PUT, e.payload, FALSE),
                                        e.childSpan, fin)]
                   /\ er' = [er EXCEPT ![i].err = x]
                   /\ pc' = [pc EXCEPT ![i] = "e_catch"]
    /\ UNCHANGED <<input, headers, payload, fw>>

\* lines 163-165 and the return of line 176: the awaited call of line 103
\* resolves
ErrFinish(i) ==
    /\ pc[i] = "e_finish"
    /\ spans' = [spans EXCEPT ![i] = SpansFinish(@, er[i].childSpan, "ok")]
    /\ log' = [log EXCEPT ![i] =
                 Append(LogFinish(@, spans[i], er[i].childSpan, "esc", "ok"),
                        [ev |-> "return", hop |-> "esc"])]
    /\ pc' = [pc EXCEPT ![i] = "f_finishError"]
    /\ UNCHANGED <<input, headers, payload, fw, er>>

\* ErrCatch deriving one more child span to report its failure on
ErrCatch_NewChild(i) ==
    /\ pc[i] = "e_catch"
    /\ LET fspiopError == ReformatFSPIOPError(er[i].err)
           closed == SpansFinish(spans[i], er[i].childSpan, "error")
       IN  /\ er' = [er EXCEPT ![i].fspiopError = fspiopError]
           /\ spans' = [spans EXCEPT ![i] =
                          IF er[i].span # Undefined THEN GetChild(closed, "esc") ELSE closed]
           /\ log' = [log EXCEPT ![i] =
                        Append(LogFinish(@, spans[i], er[i].childSpan, "esc", "error"),
                               [ev |-> "throw", hop |-> "esc", err |-> fspiopError])]
    /\ pc' = [pc EXCEPT ![i] = "f_rejected"]
    /\ UNCHANGED <<input, headers, payload, fw>>

\* ErrCatch escalating its own failure once more instead of raising
ErrCatch_Escalates(i) ==
    /\ pc[i] = "e_catch"
    /\ LET fspiopError == ReformatFSPIOPError(er[i].err)
       IN  /\ er' = [er EXCEPT ![i].fspiopError = fspiopError,
                               ![i].payload = ToApiErrorObject(fspiopError)]
           /\ spans' = [spans EXCEPT ![i] = SpansFinish(@, er[i].childSpan, "error")]
           /\ log' = [log EXCEPT ![i] =
                        Append(LogFinish(@, spans[i], er[i].childSpan, "esc", "error"),
                               [ev |-> "throw", hop |-> "esc", err |-> fspiopError])]
    /\ pc' = [pc EXCEPT ![i] = "e_getEndpoint"]
    /\ UNCHANGED <<input, headers, payload, fw>>

\* lines 168-173: normalise, close the span with the error, raise; no
\* further escalation
ErrCatch(i) ==
    /\ pc[i] = "e_catch"
    /\ LET fspiopError == ReformatFSPIOPError(er[i].err)
       IN  /\ er' = [er EXCEPT ![i].fspiopError = fspiopError]
           /\ spans' = [spans EXCEPT ![i] = SpansFinish(@, er[i].childSpan, "error")]
           /\ log' = [log EXCEPT ![i] =
                        Append(LogFinish(@, spans[i], er[i].childSpan, "esc", "error"),
                               [ev |-> "throw", hop |-> "esc", err |-> fspiopError])]
    /\ pc' = [pc EXCEPT ![i] = "f_rejected"]
    /\ UNCHANGED <<input, headers, payload, fw>>

(* --------------------------- specification ----------------------------- *)

Next ==
    \E i \in Invs :
        \/ FwdEnter(i)
        \/ FwdGetEndpoint(i)
        \/ FwdRender(i)
        \/ FwdSendRequest(i)
        \/ FwdFinish(i)
        \/ FwdCatch(i)
        \/ FwdEscalationRejected(i)
        \/ FwdFinishError(i)
        \/ ErrEnter(i)
        \/ ErrGetEndpoint(i)
        \/ ErrRender(i)
        \/ ErrSendRequest(i)
        \/ ErrFinish(i)
        \/ ErrCatch(i)

Spec == Init /\ [][Next]_vars

\* Two invocations in flight at once: the surrounding server calls
\* forwardPostAuthorization for a second request while the first is
\* suspended at an await.
ConcInputs ==
    {in \in Inputs : /\ in.headers[DESTINATION] \in {"dfspA", Undefined}
                     /\ in.transactionRequestId = <<"a">>
                     /\ in.span \in {"none", "ok"}}

InitConc ==
    /\ pc = [i \in Invs |-> "f_getChild"]
    /\ input \in [Invs -> ConcInputs]
    /\ headers = [i \in Invs |-> input[i].headers]
    /\ payload = [i \in Invs |-> input[i].payload]
    /\ fw = [i \in Invs |-> NoFrame]
    /\ er = [i \in Invs |-> NoFrame]
    /\ spans = [i \in Invs |-> [s \in SpanIds |-> NewSpan]]
    /\ log = [i \in Invs |-> <<>>]

ConcSpec == InitConc /\ [][Next]_vars

\* every await of an invocation eventually settles
FairSpec == Spec /\ WF_vars(Next)

(* ------------------------- reading the log ----------------------------- *)

Events(i, ev, hop) == {k \in DOMAIN log[i] : log[i][k].ev = ev /\ log[i][k].hop = hop}

Sends(i, method) ==
    {k \in DOMAIN log[i] : log[i][k].ev = "sendRequest" /\ log[i][k].method = method}

\* a resolve, render or send step of the operation failed
StepFailed(i, hop) ==
    \E k \in DOMAIN log[i] :
        /\ log[i][k].ev \in {"getEndpoint", "render", "sendRequest"}
        /\ log[i][k].hop = hop
        /\ ~log[i][k].ok

\* the escalation call has settled: forwardPostAuthorizationError returned or threw
Settled(i) == Events(i, "return", "esc") \cup Events(i, "throw", "esc")

Done(i) == pc[i] = "done"

(* ------------------------------- C1 ------------------------------------ *)

\* C1: after a failure of the Forwarder's resolve, render or send step the
\* Error Escalator is called exactly once (and never a second time), and an
\* error is raised to the Forwarder's caller only after that call settled.
C1_EscalatedOnceBeforeRaise ==
    \A i \in Invs :
        /\ Cardinality(Events(i, "escalate", "fwd")) <= 1
        /\ (StepFailed(i, "fwd") /\ pc[i] # "f_catch")
              => Cardinality(Events(i, "escalate", "fwd")) = 1
        /\ \A t \in Events(i, "throw", "fwd") :
              StepFailed(i, "fwd") =>
                 \E e \in Events(i, "escalate", "fwd") :
                    \E r \in Settled(i) : e < r /\ r < t

C1_Witness ==
    /\ Done("a")
    /\ StepFailed("a", "fwd")
    /\ Events("a", "throw", "fwd") # {}
    /\ Events("a", "return", "esc") # {}

(* ------------------------------- C2 ------------------------------------ *)

\* what forwardPostAuthorization raised to its caller
Raised(i) == {log[i][k].err : k \in Events(i, "throw", "fwd")}

\* C2: whenever the Forwarder failed, the error its caller receives is the
\* normalised original forwarding failure, also when the escalation failed.
C2_RaisesOriginalFailure ==
    \A i \in Invs :
        (Done(i) /\ StepFailed(i, "fwd"))
            => Raised(i) = {ReformatFSPIOPError(fw[i].err)}

(* ------------------------------- C3 ------------------------------------ *)

\* C3: when forwardPostAuthorization has returned or raised, every child
\* span created during the invocation is finished.
C3_CreatedSpansFinished ==
    \A i \in Invs :
        Done(i) => \A s \in {"fwd", "esc"} :
                      spans[i][s].created > 0 => spans[i][s].isFinished

(* ------------------------------- C4 ------------------------------------ *)

\* C4: no span is ever finished more than once, whoever finished it first
\* (the operation itself or the outbound sender).
C4_NoDoubleFinish ==
    \A i \in Invs : \A s \in SpanIds :
        /\ spans[i][s].finishes <= 1
        /\ Cardinality({k \in DOMAIN log[i] :
                          log[i][k].ev = "finish" /\ log[i][k].span = s}) = spans[i][s].finishes

\* the sender closed the Forwarder's span and the Forwarder then reached
\* its own guarded finish
C4_Witness ==
    /\ Done("a")
    /\ \E k \in DOMAIN log["a"] :
          log["a"][k].ev = "finish" /\ log["a"][k].by = "sender" /\ log["a"][k].span = "fwd"
    /\ Events("a", "return", "fwd") # {}

(* ------------------------------- C5 ------------------------------------ *)

SucceededSend(i, hop) ==
    \E k \in Events(i, "sendRequest", hop) : log[i][k].ok

\* C5: with a parent span, a resolved endpoint and a successful POST the
\* Forwarder returns success, has created exactly one child span, that span
\* has been finished exactly once, and the Error Escalator was not called.
C5_SuccessPath ==
    \A i \in Invs :
        (Done(i) /\ input[i].span = "ok" /\ SucceededSend(i, "fwd")) =>
            /\ Cardinality(Events(i, "return", "fwd")) = 1
            /\ Events(i, "throw", "fwd") = {}
            /\ Cardinality(Events(i, "getChild", "fwd")) = 1
            /\ spans[i]["fwd"].created = 1
            /\ spans[i]["fwd"].finishes = 1
            /\ Events(i, "escalate", "fwd") = {}
            /\ \A k \in DOMAIN log[i] : log[i][k].hop # "esc"
            /\ ~er[i].active
            /\ spans[i]["esc"].created = 0

C5_Witness ==
    /\ Done("a")
    /\ input["a"].span = "ok"
    /\ SucceededSend("a", "fwd")
    /\ Events("a", "return", "fwd") # {}

(* ------------------------------- C6 ------------------------------------ *)

\* C6: a failing Error Escalator raises and escalates no further: nothing
\* is resolved, sent or escalated after its throw, and one invocation makes
\* at most one POST, at most one PUT and at most two endpoint resolutions.
C6_TwoHops ==
    \A i \in Invs :
        /\ Cardinality(Sends(i, POST)) <= 1
        /\ Cardinality(Sends(i, PUT)) <= 1
        /\ Cardinality(Events(i, "getEndpoint", "fwd") \cup Events(i, "getEndpoint", "esc")) <= 2
        /\ \A t \in Events(i, "throw", "esc") :
              /\ log[i][t].err = ReformatFSPIOPError(er[i].err)
              /\ \A k \in DOMAIN log[i] :
                    k > t => log[i][k].ev \notin {"escalate", "getEndpoint", "render",
                                                  "sendRequest", "getChild"}

C6_Witness ==
    /\ Done("a")
    /\ StepFailed("a", "esc")
    /\ Events("a", "throw", "esc") # {}
    /\ Cardinality(Sends("a", POST)) = 1

(* ------------------------------- C7 ------------------------------------ *)

\* the headers of the calls made to the Error Escalator
EscalationHeaders(i) == {log[i][k].headers : k \in Events(i, "escalate", "fwd")}

\* C7: the headers handed to the Error Escalator are the original headers
\* with fspiop-source replaced by the switch identifier and
\* fspiop-destination replaced by the original source participant; every
\* other header has its original value.
C7_ReversedHeaders ==
    \A i \in Invs : \A h \in EscalationHeaders(i) :
        /\ DOMAIN h = DOMAIN input[i].headers
        /\ h[SOURCE] = SWITCH
        /\ h[DESTINATION] = input[i].headers[SOURCE]
        /\ \A n \in DOMAIN input[i].headers \ {SOURCE, DESTINATION} : h[n] = input[i].headers[n]

C7_Witness ==
    /\ Done("a")
    /\ EscalationHeaders("a") # {}
    /\ input["a"].headers[DESTINATION] = "dfspA"

(* ------------------------------- C8 ------------------------------------ *)

\* the routing of the escalation as the Error Escalator uses it
EscalationRouting(i) ==
    {[source |-> log[i][k].source, destination |-> log[i][k].destination]
        : k \in Events(i, "sendRequest", "esc")}

\* C8 as stated: the escalation's source and destination are the original
\* destination and source, exactly swapped.
C8_ExactSwap ==
    \A i \in Invs : \A r \in EscalationRouting(i) :
        /\ r.destination = input[i].headers[SOURCE]
        /\ r.source = input[i].headers[DESTINATION]

\* C8 amended: the escalation is addressed to the original source
\* participant and its source is the switch, not the original destination.
C8_ToSourceFromSwitch ==
    \A i \in Invs :
        /\ \A r \in EscalationRouting(i) :
              /\ r.destination = input[i].headers[SOURCE]
              /\ r.source = SWITCH
        /\ \A k \in Events(i, "getEndpoint", "esc") :
              log[i][k].fsp = input[i].headers[SOURCE]

C8_Witness ==
    /\ Done("a")
    /\ EscalationRouting("a") # {}
    /\ input["a"].headers[DESTINATION] = "dfspB"
    /\ input["a"].headers[SOURCE] = "pispA"

(* ------------------------------- C9 ------------------------------------ *)

\* C9: a span object without getChild makes the call fail with a validation
\* error raised straight to the caller; nothing is resolved, sent,
\* escalated or finished in that invocation.
C9_MalformedSpanRejected ==
    \A i \in Invs :
        input[i].span = "malformed" =>
            /\ \A k \in DOMAIN log[i] : log[i][k].ev = "throw" /\ log[i][k].hop = "fwd"
            /\ Done(i) => Raised(i) = {ValidationError("fwd")} /\ Len(log[i]) = 1
            /\ \A s \in SpanIds : spans[i][s].finishes = 0 /\ spans[i][s].created = 0
            /\ ~er[i].active

C9_Witness ==
    /\ Done("a")
    /\ input["a"].span = "malformed"
    /\ Raised("a") # {}

(* ------------------------------- C10 ----------------------------------- *)

Outcomes(i) == Events(i, "return", "fwd") \cup Events(i, "throw", "fwd")

\* C10: when every await settles, each invocation terminates, with exactly
\* one outcome: it either returned or raised, never both, and it did not
\* return after a forwarding failure.
C10_TerminatesWithOneOutcome ==
    \A i \in Invs :
        /\ (pc[i] # "off") ~> Done(i)
        /\ [](Cardinality(Outcomes(i)) <= 1)
        /\ [](Done(i) => /\ Outcomes(i) = {Len(log[i])}
                         /\ StepFailed(i, "fwd") => Events(i, "return", "fwd") = {})
        /\ [](Outcomes(i) # {} => Done(i))

C10_Witness ==
    /\ Done("a")
    /\ StepFailed("a", "fwd")
    /\ Events("a", "throw", "fwd") # {}
    /\ Events("a", "throw", "esc") # {}

(* ------------------------------- C11 ----------------------------------- *)

\* the calls of one kind an operation made that succeeded
OkSteps(i, ev, hop) == {k \in Events(i, ev, hop) : log[i][k].ok}

\* the span an operation derived for itself
OwnSpan(hop) == IF hop = "fwd" THEN "fwd" ELSE "esc"

\* C11: in each operation a render follows a successful resolution, a send
\* follows a successful render, and the operation's span is finished only
\* after the operation's resolve, render and send; the Escalator's first
\* step comes after a failed step of the Forwarder.
C11_StepOrder ==
    \A i \in Invs : \A hop \in {"fwd", "esc"} :
        /\ \A r \in Events(i, "render", hop) :
              \E g \in OkSteps(i, "getEndpoint", hop) : g < r
        /\ \A t \in Events(i, "sendRequest", hop) :
              \E r \in OkSteps(i, "render", hop) :
                 /\ r < t
                 /\ \E g \in OkSteps(i, "getEndpoint", hop) : g < r
        /\ \A f \in DOMAIN log[i] :
              (log[i][f].ev = "finish" /\ log[i][f].span = OwnSpan(hop)) =>
                 \A k \in Events(i, "getEndpoint", hop) \cup Events(i, "render", hop)
                          \cup Events(i, "sendRequest", hop) : k < f
        /\ \A k \in DOMAIN log[i] :
              log[i][k].hop = "esc" =>
                 \E x \in DOMAIN log[i] :
                    /\ x < k
                    /\ log[i][x].hop = "fwd"
                    /\ log[i][x].ev \in {"getEndpoint", "render", "sendRequest"}
                    /\ ~log[i][x].ok

C11_Witness ==
    /\ Done("a")
    /\ input["a"].span = "ok"
    /\ OkSteps("a", "sendRequest", "esc") # {}
    /\ Events("a", "sendRequest", "fwd") # {}
    /\ spans["a"]["fwd"].isFinished /\ spans["a"]["esc"].isFinished

(* ------------------------------- C12 ----------------------------------- *)

\* C12: the Forwarder resolves the original destination with the
\* authorizations-POST endpoint type and sends with POST; the escalation
\* (also the one caused by a missing destination header) resolves the
\* original source with the error-callback-PUT endpoint type, uses the
\* error path template with the same resource id and sends with PUT.
C12_HopAddressing ==
    \A i \in Invs :
        /\ \A k \in Events(i, "getEndpoint", "fwd") :
              /\ log[i][k].fsp = input[i].headers[DESTINATION]
              /\ log[i][k].type = THIRDPARTY_TRANSACTIONS_AUTHORIZATIONS_POST
        /\ \A k \in Events(i, "sendRequest", "fwd") :
              /\ log[i][k].method = POST
              /\ log[i][k].destination = input[i].headers[DESTINATION]
        /\ \A k \in Events(i, "escalate", "fwd") :
              /\ log[i][k].path = THIRDPARTY_TRANSACTION_REQUEST_AUTHORIZATIONS_PUT_ERROR
              /\ log[i][k].transactionRequestId = input[i].transactionRequestId
        /\ \A k \in Events(i, "getEndpoint", "esc") :
              /\ log[i][k].fsp = input[i].headers[SOURCE]
              /\ log[i][k].type = THIRDPARTY_CALLBACK_URL_TRANSACTION_REQUEST_AUTHORIZATIONS_PUT_ERROR
        /\ \A k \in Events(i, "sendRequest", "esc") :
              /\ log[i][k].method = PUT
              /\ log[i][k].url =
                   Render(BaseUrl(input[i].headers[SOURCE],
                                  THIRDPARTY_CALLBACK_URL_TRANSACTION_REQUEST_AUTHORIZATIONS_PUT_ERROR)
                          \o THIRDPARTY_TRANSACTION_REQUEST_AUTHORIZATIONS_PUT_ERROR,
                          input[i].transactionRequestId).value
        /\ (Done(i) /\ input[i].headers[DESTINATION] = Undefined /\ input[i].span # "malformed")
              => Cardinality(Events(i, "getEndpoint", "esc")) = 1

\* the destination header is missing and the error callback was sent
C12_Witness ==
    /\ Done("a")
    /\ input["a"].headers[DESTINATION] = Undefined
    /\ OkSteps("a", "sendRequest", "esc") # {}

(* ------------------------------- C13 ----------------------------------- *)

\* everything one invocation holds
Local(i) == <<pc[i], input[i], headers[i], payload[i], fw[i], er[i], spans[i], log[i]>>

\* what the collaborators answered to an invocation, in order: whether a
\* resolution or a send succeeded, whether the sender closed the span, and
\* which failure was raised
IsAnswer(e) ==
    \/ e.ev \in {"getEndpoint", "sendRequest", "escalate"}
    \/ e.ev = "finish" /\ e.by = "sender"
    \/ e.ev = "throw" /\ e.hop = "esc"

Answer(e) ==
    CASE e.ev \in {"getEndpoint", "sendRequest"} -> IF e.ok THEN "ok" ELSE "fail"
      [] e.ev = "finish" -> "closed"
      [] e.ev = "escalate" -> e.payload.errorInformation.errorDescription
      [] OTHER -> e.err.kind

Answers(i) ==
    LET sel == SelectSeq(log[i], IsAnswer)
    IN  [k \in 1..Len(sel) |-> Answer(sel[k])]

\* the calls of an invocation carry the data of its own request
OwnCalls(i) ==
    /\ \A k \in Events(i, "getEndpoint", "fwd") : log[i][k].fsp = input[i].headers[DESTINATION]
    /\ \A k \in Events(i, "sendRequest", "fwd") :
          /\ log[i][k].headers = input[i].headers
          /\ log[i][k].source = input[i].headers[SOURCE]
          /\ log[i][k].payload = input[i].payload
    /\ \A k \in Events(i, "getEndpoint", "esc") : log[i][k].fsp = input[i].headers[SOURCE]
    /\ \A k \in Events(i, "sendRequest", "esc") :
          /\ log[i][k].destination = input[i].headers[SOURCE]
          /\ log[i][k].headers[DESTINATION] = input[i].headers[SOURCE]

\* a step belongs to one invocation and leaves the other as it was
OneInvocationSteps == \E i \in Invs : \A j \in Invs \ {i} : Local(j)' = Local(j)

Idempotent(e) ==
    LET n == ReformatFSPIOPError(e)
    IN  /\ ReformatFSPIOPError(n) = n
        /\ n.kind = e.kind
        /\ n.isFSPIOP

\* C14: normalisation is idempotent on every failure the two operations
\* catch, and the failure an operation raises after normalising is not
\* changed (not wrapped again) by a further normalisation.
C14_NormalizeIdempotent ==
    \A i \in Invs :
        /\ Events(i, "escalate", "fwd") # {} =>
              /\ Idempotent(fw[i].err)
              /\ fw[i].fspiopError = ReformatFSPIOPError(fw[i].err)
              /\ ReformatFSPIOPError(fw[i].fspiopError) = fw[i].fspiopError
        /\ \A t \in Events(i, "throw", "esc") :
              /\ Idempotent(er[i].err)
              /\ ReformatFSPIOPError(log[i][t].err) = log[i][t].err
              /\ log[i][t].err.wrapped <= 1

\* the Forwarder caught an error that was already an FSPIOPError, the
\* Escalator one that was not
C14_Witness ==
    /\ Done("a")
    /\ Events("a", "throw", "esc") # {}
    /\ fw["a"].err = ResolutionError("fwd")
    /\ er["a"].err = TransportError("esc")
    /\ er["a"].fspiopError.code = "2001"

(* ------------------------------- C15 ----------------------------------- *)

FinishesBy(i, who) ==
    {k \in DOMAIN log[i] : log[i][k].ev = "finish" /\ log[i][k].by = who}

\* C15: the Error Escalator finishes only the child span it derived
\* itself, never the span the Forwarder handed to it; the Forwarder
\* finishes only its own child span, never the Escalator's span or the
\* caller's parent span; each operation hands only its own span on to the
\* sender.
C15_OwnSpanOnly ==
    \A i \in Invs :
        /\ \A k \in FinishesBy(i, "esc") : log[i][k].span = "esc"
        /\ \A k \in FinishesBy(i, "fwd") : log[i][k].span = "fwd"
        /\ \A k \in FinishesBy(i, "sender") : log[i][k].span = OwnSpan(log[i][k].hop)
        /\ \A hop \in {"fwd", "esc"} : \A k \in Events(i, "sendRequest", hop) :
              log[i][k].span \in {OwnSpan(hop), Undefined}
        /\ spans[i]["parent"].finishes = 0
        /\ (pc[i] \in {"e_getChild", "e_getEndpoint", "e_render", "e_send", "e_finish", "e_catch"}
              /\ FinishesBy(i, "sender") = {})
              => ~spans[i]["fwd"].isFinished

\* both operations finished a span of their own
C15_Witness ==
    /\ Done("a")
    /\ FinishesBy("a", "esc") # {}
    /\ FinishesBy("a", "fwd") # {}

(* ------------------------------- C16 ----------------------------------- *)

\* C16: the POST carries the caller's headers and payload as they were on
\* entry, and the caller's headers and payload objects keep their entry
\* values throughout, also after the reversed headers were built.
C16_InputsUnchanged ==
    \A i \in Invs :
        /\ headers[i] = input[i].headers
        /\ payload[i] = input[i].payload
        /\ \A k \in Events(i, "sendRequest", "fwd") :
              /\ log[i][k].headers = input[i].headers
              /\ log[i][k].payload = input[i].payload

\* the POST was sent and failed, and the reversed headers were built
C16_Witness ==
    /\ Done("a")
    /\ Events("a", "sendRequest", "fwd") # {}
    /\ Events("a", "escalate", "fwd") # {}
    /\ fw["a"].errorHeaders # input["a"].headers

(* ------------------------------- C17 ----------------------------------- *)

\* C17: a child span is derived only when a parent span was supplied; the
\* caller's span gets exactly one child (the Forwarder's), that child gets
\* a child of its own (the Escalator's) only after a forwarding failure and
\* at most once; so at most two spans are created, and none without a
\* parent span.
C17_SpanCreationBounded ==
    \A i \in Invs :
        /\ spans[i]["parent"].created = 0
        /\ spans[i]["fwd"].created = Cardinality(Events(i, "getChild", "fwd"))
        /\ spans[i]["esc"].created = Cardinality(Events(i, "getChild", "esc"))
        /\ spans[i]["fwd"].created <= 1
        /\ spans[i]["esc"].created <= 1
        /\ input[i].span # "ok" => spans[i]["fwd"].created = 0 /\ spans[i]["esc"].created = 0
        /\ (input[i].span = "ok" /\ pc[i] \notin {"off", "f_getChild"})
              => spans[i]["fwd"].created = 1
        /\ \A k \in Events(i, "getChild", "fwd") : log[i][k].parent = "parent"
        /\ \A k \in Events(i, "getChild", "esc") :
              /\ log[i][k].parent = "fwd"
              /\ \E e \in Events(i, "escalate", "fwd") : e < k
        /\ spans[i]["esc"].created = 1 => StepFailed(i, "fwd") /\ spans[i]["fwd"].created = 1
        /\ (Done(i) /\ input[i].span = "ok" /\ StepFailed(i, "fwd"))
              => spans[i]["esc"].created = 1

\* both spans were created
C17_Witness ==
    /\ Done("a")
    /\ spans["a"]["fwd"].created = 1
    /\ spans["a"]["esc"].created = 1
    /\ StepFailed("a", "esc")

(* ------------------------------- C18 ----------------------------------- *)

FinishesOf(i, s) ==
    {k \in DOMAIN log[i] : log[i][k].ev = "finish" /\ log[i][k].span = s}

\* the Forwarder's span is not finished between the call of the Error
\* Escalator and the moment that call settles
NotFinishedDuringEscalation(i) ==
    \A f \in FinishesOf(i, "fwd") : \A c \in Events(i, "escalate", "fwd") :
        c < f => \E r \in Settled(i) : c < r /\ r < f

\* C18 as stated: whenever both spans get finished, the Escalator's span
\* is finished before the Forwarder's span, and the Forwarder's span is
\* never finished while the escalation is in progress.
C18_NestingOrder ==
    \A i \in Invs :
        /\ \A f \in FinishesOf(i, "fwd") : \A e \in FinishesOf(i, "esc") : e < f
        /\ NotFinishedDuringEscalation(i)

\* C18 amended: the same, for a Forwarder's span that the outbound sender
\* did not already close during the POST (the Forwarder's own finish of
\* lines 111-113 comes after the Escalator's span was finished).
C18_NestingOrderOwnFinish ==
    \A i \in Invs :
        /\ \A f \in FinishesOf(i, "fwd") :
              log[i][f].by # "sender" => \A e \in FinishesOf(i, "esc") : e < f
        /\ (FinishesBy(i, "fwd") # {} /\ Events(i, "escalate", "fwd") # {}
              /\ spans[i]["esc"].created > 0)
              => spans[i]["esc"].isFinished
        /\ NotFinishedDuringEscalation(i)

\* the escalation went through and both operations closed their spans
C18_Witness ==
    /\ Done("a")
    /\ Events("a", "escalate", "fwd") # {}
    /\ FinishesOf("a", "esc") # {}
    /\ FinishesBy("a", "fwd") # {}

(* ------------------------------- C19 ----------------------------------- *)

\* the resolve and send calls of an invocation, in order, without the span
\* they were given and without their result
IsCall(e) == e.ev \in {"getEndpoint", "sendRequest"}

CallOf(e) ==
    IF e.ev = "getEndpoint"
    THEN [ev |-> e.ev, hop |-> e.hop, fsp |-> e.fsp, type |-> e.type]
    ELSE [ev |-> e.ev, hop |-> e.hop, method |-> e.method, url |-> e.url,
          headers |-> e.headers, source |-> e.source, destination |-> e.destination,
          payload |-> e.payload]

Calls(i) ==
    LET sel == SelectSeq(log[i], IsCall)
    IN  [k \in 1..Len(sel) |-> CallOf(sel[k])]

\* what the resolver and the sender answered: success or failure of each
\* call and the failure raised
IsResponse(e) == IsAnswer(e) /\ e.ev # "finish"

Responses(i) ==
    LET sel == SelectSeq(log[i], IsResponse)
    IN  [k \in 1..Len(sel) |-> Answer(sel[k])]

OutcomeOf(i) == <<Events(i, "return", "fwd") # {}, Raised(i)>>

\* i was called with a well-formed span, j with the same request and no span
SameButSpan(i, j) ==
    /\ input[i].span = "ok"
    /\ input[j] = [input[i] EXCEPT !.span = "none"]

\* C19: an invocation with a parent span and one without, given the same
\* request and the same answers of the resolver and the sender, have
\* issued the same resolve and send calls and have the same outcome.
C19_TracingTransparent ==
    \A i, j \in Invs :
        (SameButSpan(i, j) /\ pc[i] = pc[j] /\ Responses(i) = Responses(j))
            => (Calls(i) = Calls(j) /\ OutcomeOf(i) = OutcomeOf(j))

\* both ran into a failed escalation, one traced and one not
C19_Witness ==
    /\ SameButSpan("a", "b")
    /\ Done("a") /\ Done("b")
    /\ Responses("a") = Responses("b")
    /\ Events("a", "throw", "esc") # {}
    /\ Sends("a", PUT) # {}
    /\ spans["a"]["esc"].isFinished

====
